---- MODULE Spec2Model ----
(***************************************************************************)
(* OatQuickMethodHeader (runtime/oat_quick_method_header.h): the record    *)
(* that precedes the machine code of one compiled method.                  *)
(*                                                                         *)
(* Machine words are little-endian sequences of 16-bit limbs, so that      *)
(* 32-bit and 64-bit values keep their width: a uint32_t has 2 limbs, a    *)
(* uintptr_t has 2 limbs on a 32-bit runtime ISA and 4 on a 64-bit one.    *)
(* All arithmetic is modulo 2^(16 * number of limbs).                      *)
(***************************************************************************)
EXTENDS Integers, Sequences, FiniteSets, TLC

VARIABLES
  kRuntimeISA,          \* the instruction set the runtime was built for
  kIsDebugBuild,        \* whether DCHECKs are compiled in
  vmap_table_offset_,   \* uint32_t field
  code_size_,           \* uint32_t field, bit 31 is the should-deoptimize flag
  code_,                \* address of the code_[0] member (header address + 8)
  aborted,              \* the process died in a failed CHECK / DCHECK
  last,                 \* the most recent call: operation, argument, outcome
  writer,               \* the deoptimizing thread: position in SetHasShouldDeoptimizeFlag
  readers,              \* the inspecting threads: position in their current call
  code_info,            \* the stack maps encoded in the blob before the header
  instance_,            \* Runtime::instance_ (src/runtime.cc): the registered Runtime
  runtimes              \* the Runtime objects on the heap, by address

hdr == <<vmap_table_offset_, code_size_, code_>>
build == <<kRuntimeISA, kIsDebugBuild>>

----------------------------------------------------------------------------
(* Fixed-width words *)

LimbBase == 2^16

RECURSIVE AndLimb(_, _)
AndLimb(x, y) ==
  IF x = 0 \/ y = 0 THEN 0
  ELSE (x % 2) * (y % 2) + 2 * AndLimb(x \div 2, y \div 2)

\* a & b
BitAnd(a, b) == [i \in 1..Len(a) |-> AndLimb(a[i], b[i])]

\* ~a
BitNot(a) == [i \in 1..Len(a) |-> LimbBase - 1 - a[i]]

\* a | b  (De Morgan on the fixed width)
BitOr(a, b) == BitNot(BitAnd(BitNot(a), BitNot(b)))

\* a + b, wrapping
AddW(a, b) ==
  LET n == Len(a)
      carry[i \in 0..n] ==
        IF i = 0 THEN 0 ELSE (a[i] + b[i] + carry[i - 1]) \div LimbBase
  IN [i \in 1..n |-> (a[i] + b[i] + carry[i - 1]) % LimbBase]

\* a - b, wrapping
SubW(a, b) ==
  LET n == Len(a)
      borrow[i \in 0..n] ==
        IF i = 0 THEN 0
        ELSE IF a[i] - b[i] - borrow[i - 1] < 0 THEN 1 ELSE 0
  IN [i \in 1..n |-> (LimbBase + a[i] - b[i] - borrow[i - 1]) % LimbBase]

\* a < b, unsigned
LtW(a, b) ==
  \E i \in 1..Len(a) :
    /\ a[i] < b[i]
    /\ \A j \in (i + 1)..Len(a) : a[j] = b[j]

\* a <= b, unsigned
LeW(a, b) == a = b \/ LtW(a, b)

\* integral conversion of an unsigned value to a wider (or equal) unsigned type
ZeroExt(w, n) == [i \in 1..n |-> IF i <= Len(w) THEN w[i] ELSE 0]

\* the uint32_t with the given high and low half
U32(hi, lo) == <<lo, hi>>

----------------------------------------------------------------------------
(* Architecture policy *)

ISAs == {"kArm", "kArm64", "kX86", "kX86_64", "kMips", "kMips64"}

\* sizeof(uintptr_t) in limbs
PtrLimbs(isa) == IF isa \in {"kArm64", "kX86_64", "kMips64"} THEN 4 ELSE 2

\* GetInstructionSetAlignment(isa), in bytes
GetInstructionSetAlignment(isa) ==
  IF isa \in {"kArm", "kMips", "kMips64"} THEN 8 ELSE 16

\* a uintptr_t of the given ISA from a 32-bit value
UPtr(isa, hi, lo) == ZeroExt(U32(hi, lo), PtrLimbs(isa))

\* IsAlignedParam(x, n) for a power of two n <= 2^16
IsAlignedParam(x, n) == x[1] % n = 0

----------------------------------------------------------------------------
(* Constants of the class *)

\* static constexpr uint32_t kShouldDeoptimizeMask = 0x80000000
kShouldDeoptimizeMask == U32(32768, 0)

\* static constexpr uint32_t kCodeSizeMask = ~kShouldDeoptimizeMask
kCodeSizeMask == BitNot(kShouldDeoptimizeMask)

\* the literal 0xFFFFFFFF of GetCodeSize's CHECK_NE
kStubPrefix == U32(65535, 65535)

\* OFFSETOF_MEMBER(OatQuickMethodHeader, code_): two packed uint32_t fields
kCodeOffset == 8

Zero32 == U32(0, 0)

----------------------------------------------------------------------------
(* Outcomes of a call: it returns a value, or the process aborts *)

Ret(v) == [abort |-> FALSE, ret |-> v]
Abort == [abort |-> TRUE, ret |-> <<>>]

\* DCHECK(cond): fatal only when DCHECKs are compiled in
DCheckFails(debug, cond) == debug /\ ~cond

----------------------------------------------------------------------------
(* The operations of OatQuickMethodHeader, as functions of the fields      *)
(* they read.  code is the address of code_, off is vmap_table_offset_,    *)
(* cs is code_size_.                                                       *)

One(n) == ZeroExt(<<1>>, n)

\* uint32_t GetCodeSize() const
GetCodeSize(cs) ==
  IF cs = kStubPrefix THEN Abort                \* CHECK_NE(code_size_, 0xFFFFFFFF)
  ELSE Ret(BitAnd(cs, kCodeSizeMask))

\* IsOptimized with || in place of &&
IsOptimized_Or(off, cs) ==
  LET size == GetCodeSize(cs)
  IN IF size.abort THEN Abort
     ELSE Ret(size.ret # Zero32 \/ off # Zero32)

\* bool IsOptimized() const
IsOptimized(off, cs) ==
  LET size == GetCodeSize(cs)
  IN IF size.abort THEN Abort
     ELSE Ret(size.ret # Zero32 /\ off # Zero32)

\* DCHECK(IsOptimized()): the argument is evaluated only when DCHECKs are on
DCheckIsOptimizedFails(debug, off, cs) ==
  debug /\ (IsOptimized(off, cs).abort \/ ~IsOptimized(off, cs).ret)

\* GetOptimizedCodeInfoPtr measuring back from the header, not from the code
GetOptimizedCodeInfoPtr_FromHeader(debug, code, off, cs) ==
  IF DCheckIsOptimizedFails(debug, off, cs) THEN Abort
  ELSE Ret(SubW(SubW(code, ZeroExt(<<kCodeOffset>>, Len(code))), ZeroExt(off, Len(code))))

\* uint8_t* GetOptimizedCodeInfoPtr()
GetOptimizedCodeInfoPtr(debug, code, off, cs) ==
  IF DCheckIsOptimizedFails(debug, off, cs) THEN Abort
  ELSE Ret(SubW(code, ZeroExt(off, Len(code))))

\* const uint8_t* GetOptimizedCodeInfoPtr() const
GetOptimizedCodeInfoPtrConst(debug, code, off, cs) ==
  IF DCheckIsOptimizedFails(debug, off, cs) THEN Abort
  ELSE Ret(SubW(code, ZeroExt(off, Len(code))))

\* const uint8_t* GetCode() const
GetCode(code) == Ret(code)

\* uint32_t GetVmapTableOffset() const
GetVmapTableOffset(off) == Ret(off)

\* void SetVmapTableOffset(uint32_t offset): the new vmap_table_offset_
SetVmapTableOffset(offset) == Ret(offset)

\* const uint8_t* GetVmapTable() const
GetVmapTable(code, off, cs) ==
  LET opt == IsOptimized(off, cs)
  IN IF opt.abort \/ opt.ret THEN Abort          \* CHECK(!IsOptimized())
     ELSE Ret(IF off = Zero32 THEN ZeroExt(<<>>, Len(code))
              ELSE SubW(code, ZeroExt(off, Len(code))))

\* Contains with an exclusive upper bound
Contains_Exclusive(isa, code, cs, pc) ==
  LET code_start == IF isa = "kArm" THEN AddW(code, One(Len(code))) ELSE code
      size == GetCodeSize(cs)
  IN IF ~LeW(code_start, pc) THEN Ret(FALSE)
     ELSE IF size.abort THEN Abort
     ELSE Ret(LtW(pc, AddW(code_start, ZeroExt(size.ret, Len(code)))))

\* bool Contains(uintptr_t pc) const
Contains(isa, code, cs, pc) ==
  LET code_start == IF isa = "kArm" THEN AddW(code, One(Len(code))) ELSE code
      size == GetCodeSize(cs)
  IN IF ~LeW(code_start, pc) THEN Ret(FALSE)     \* && does not evaluate its right side
     ELSE IF size.abort THEN Abort
     ELSE Ret(LeW(pc, AddW(code_start, ZeroExt(size.ret, Len(code)))))

\* const uint8_t* GetEntryPoint() const
GetEntryPoint(isa, code) ==
  Ret(IF isa = "kArm" THEN BitOr(code, One(Len(code))) ELSE code)

\* NativeQuickPcOffset measured from the code start, not from the entry point
NativeQuickPcOffset_FromCode(isa, code, pc) ==
  Ret(SubW(pc, code))

\* uintptr_t NativeQuickPcOffset(const uintptr_t pc) const
NativeQuickPcOffset(isa, code, pc) ==
  Ret(SubW(pc, GetEntryPoint(isa, code).ret))

\* the platform stack alignment, in bytes
kStackAlignment == 16

\* QuickMethodFrameInfo GetFrameInfo() const; decoded is what
\* CodeInfo::DecodeFrameInfo answers for the blob pointer it is given
GetFrameInfo(debug, code, off, cs, decoded) ==
  IF DCheckIsOptimizedFails(debug, off, cs) THEN Abort
  ELSE IF GetOptimizedCodeInfoPtrConst(debug, code, off, cs).abort THEN Abort
  ELSE Ret(decoded)

\* template <bool kCheckFrameSize = true> uint32_t GetFrameSizeInBytes() const
GetFrameSizeInBytes(kCheckFrameSize, debug, code, off, cs, decoded) ==
  LET info == GetFrameInfo(debug, code, off, cs, decoded)
  IN IF info.abort THEN Abort
     ELSE LET result == info.ret.frame_size_in_bytes
          IN IF kCheckFrameSize /\ DCheckFails(debug, result % kStackAlignment = 0)
             THEN Abort                          \* DCHECK_ALIGNED(result, kStackAlignment)
             ELSE Ret(result)

\* SetHasShouldDeoptimizeFlag with = in place of |=
SetHasShouldDeoptimizeFlag_Assign(debug, cs) ==
  IF DCheckFails(debug, BitAnd(cs, kShouldDeoptimizeMask) = Zero32) THEN Abort
  ELSE Ret(kShouldDeoptimizeMask)

\* void SetHasShouldDeoptimizeFlag(): the new code_size_
SetHasShouldDeoptimizeFlag(debug, cs) ==
  IF DCheckFails(debug, BitAnd(cs, kShouldDeoptimizeMask) = Zero32) THEN Abort
  ELSE Ret(BitOr(cs, kShouldDeoptimizeMask))

\* HasShouldDeoptimizeFlag testing the code-size bits
HasShouldDeoptimizeFlag_SizeBits(cs) == Ret(BitAnd(cs, kCodeSizeMask) # Zero32)

\* bool HasShouldDeoptimizeFlag() const
HasShouldDeoptimizeFlag(cs) == Ret(BitAnd(cs, kShouldDeoptimizeMask) # Zero32)

\* static OatQuickMethodHeader* FromCodePointer(const void* code_ptr)
FromCodePointer(isa, debug, code_ptr) ==
  LET header == SubW(code_ptr, ZeroExt(<<kCodeOffset>>, Len(code_ptr)))
      align == GetInstructionSetAlignment(isa)
  IN IF DCheckFails(debug, IsAlignedParam(code_ptr, align) \/ IsAlignedParam(header, align))
     THEN Abort
     ELSE Ret(header)

\* EntryPointToCodePointer(entry_point): strips the interworking tag bit an
\* entry point carries on a tagging architecture
EntryPointToCodePointer(isa, entry_point) ==
  IF isa = "kArm"
  THEN BitAnd(entry_point, BitNot(One(Len(entry_point))))
  ELSE entry_point

\* FromEntryPoint without the untagging
FromEntryPoint_NoStrip(isa, debug, entry_point) ==
  FromCodePointer(isa, debug, entry_point)

\* static OatQuickMethodHeader* FromEntryPoint(const void* entry_point)
FromEntryPoint(isa, debug, entry_point) ==
  FromCodePointer(isa, debug, EntryPointToCodePointer(isa, entry_point))

\* the address of code_ in the header found at the given address
CodeOf(header) == AddW(header, ZeroExt(<<kCodeOffset>>, Len(header)))

----------------------------------------------------------------------------
(* Translation between guest offsets (dex pcs) and native pcs.  The two    *)
(* member functions are declared in the header; what they do is the        *)
(* translator of the specification, which asks the stack-map decoder.  A   *)
(* blob is the set of mappings the decoder reads from it; for one native   *)
(* offset it holds at most one normal mapping and at most one catch-handler*)
(* mapping.  The ArtMethod* argument is passed through and not read.       *)

\* one mapping of the blob
StackMap(guest_offset, native_offset, catch) ==
  [guest_offset |-> guest_offset, native_offset |-> native_offset, catch |-> catch]

\* Option<T>
Some(v) == [found |-> TRUE, value |-> v]
None == [found |-> FALSE, value |-> <<>>]

\* guest_offset_for_native_offset(blob, native_offset, for_catch_handler)
guest_offset_for_native_offset(blob, native_offset, for_catch_handler) ==
  LET hits == { m \in blob :
                  /\ m.catch = for_catch_handler
                  /\ ZeroExt(m.native_offset, Len(native_offset)) = native_offset }
  IN IF hits = {} THEN None ELSE Some((CHOOSE m \in hits : TRUE).guest_offset)

\* native_offset_for_guest_offset(blob, guest_offset, for_catch_handler): of
\* the mappings of a guest offset, the one with the lowest native offset
native_offset_for_guest_offset(blob, guest_offset, for_catch_handler) ==
  LET hits == { m \in blob :
                  m.catch = for_catch_handler /\ m.guest_offset = guest_offset }
  IN IF hits = {} THEN None
     ELSE Some((CHOOSE m \in hits :
                  \A o \in hits : LeW(m.native_offset, o.native_offset)).native_offset)

\* what a non-aborting lookup returns for "no mapping"
NoNativePc(n) == [i \in 1..n |-> LimbBase - 1]
NoDexPc == U32(65535, 65535)

\* uintptr_t ToNativeQuickPc(ArtMethod* method, const uint32_t dex_pc,
\*                           bool is_for_catch_handler, bool abort_on_failure) const
ToNativeQuickPc(isa, debug, code, off, cs, blob, dex_pc, is_for_catch_handler, abort_on_failure) ==
  LET found == native_offset_for_guest_offset(blob, dex_pc, is_for_catch_handler)
  IN IF GetOptimizedCodeInfoPtrConst(debug, code, off, cs).abort THEN Abort
     ELSE IF found.found
     THEN Ret(AddW(GetEntryPoint(isa, code).ret, ZeroExt(found.value, Len(code))))
     ELSE IF abort_on_failure THEN Abort
     ELSE Ret(NoNativePc(Len(code)))

\* ToDexPc measuring the native offset from the code start, not the entry point
ToDexPc_FromCode(isa, debug, code, off, cs, blob, pc, abort_on_failure) ==
  LET sought_offset == SubW(pc, code)
      found == guest_offset_for_native_offset(blob, sought_offset, FALSE)
  IN IF GetOptimizedCodeInfoPtrConst(debug, code, off, cs).abort THEN Abort
     ELSE IF found.found THEN Ret(found.value)
     ELSE IF abort_on_failure THEN Abort
     ELSE Ret(NoDexPc)

\* uint32_t ToDexPc(ArtMethod* method, const uintptr_t pc, bool abort_on_failure) const
\* It has no catch-handler parameter: its lookup is the normal one.
ToDexPc(isa, debug, code, off, cs, blob, pc, abort_on_failure) ==
  LET sought_offset == NativeQuickPcOffset(isa, code, pc).ret
      found == guest_offset_for_native_offset(blob, sought_offset, FALSE)
  IN IF GetOptimizedCodeInfoPtrConst(debug, code, off, cs).abort THEN Abort
     ELSE IF found.found THEN Ret(found.value)
     ELSE IF abort_on_failure THEN Abort
     ELSE Ret(NoDexPc)

----------------------------------------------------------------------------
(* Runtime (src/runtime.cc): the process-wide singleton.  A Runtime object *)
(* is the record of its members; a pointer member is TRUE when it is not   *)
(* NULL.  An address is a number, NULL is 0.                               *)

NULL == 0

\* how many addresses the allocator hands out for Runtime objects
MaxRuntimes == 2

Addrs == 1..MaxRuntimes

\* Runtime::Runtime()
Runtime ==
  [allocated |-> TRUE, stack_size_ |-> 0, thread_list_ |-> FALSE,
   intern_table_ |-> FALSE, class_linker_ |-> FALSE, signal_catcher_ |-> FALSE,
   java_vm_ |-> FALSE, started_ |-> FALSE, vfprintf_ |-> FALSE, exit_ |-> FALSE,
   abort_ |-> FALSE]

\* memory that holds no Runtime object
Freed == [Runtime EXCEPT !.allocated = FALSE]

\* Thread::kDefaultStackSize, defined outside this file: some nonzero size
kDefaultStackSize == 1048576

\* one element of Options; size is what ParseMemoryOption answers for the
\* text after "-Xss" (0 when it is malformed)
Option(first, size) == [first |-> first, size |-> size]

\* the loop of ParsedOptions::Create from options[i] on (i counts from 1);
\* LOG(FATAL) ends the process
RECURSIVE ParseFrom(_, _, _, _)
ParseFrom(options, i, ignore_unrecognized, stack_size) ==
  IF i > Len(options)
  THEN [abort |-> FALSE, null |-> FALSE, stack_size_ |-> stack_size]
  ELSE LET option == options[i]
           fatal == [abort |-> TRUE, null |-> TRUE, stack_size_ |-> stack_size]
           continue == ParseFrom(options, i + 1, ignore_unrecognized, stack_size)
       IN IF option.first \in {"-classpath", "-cp"}
          THEN IF i + 1 > Len(options) THEN fatal
               ELSE ParseFrom(options, i + 2, ignore_unrecognized, stack_size)
          ELSE IF option.first = "-Xcheck:jni" THEN continue
          ELSE IF option.first = "-Xss"
          THEN IF option.size = 0
               THEN IF ignore_unrecognized THEN continue ELSE fatal
               ELSE ParseFrom(options, i + 1, ignore_unrecognized, option.size)
          ELSE IF ~ignore_unrecognized THEN fatal
          ELSE continue

\* Runtime::ParsedOptions* Runtime::ParsedOptions::Create(options, ignore_unrecognized)
ParsedOptionsCreate(options, ignore_unrecognized) ==
  ParseFrom(options, 1, ignore_unrecognized, kDefaultStackSize)

\* bool Runtime::Init(const Options& raw_options, bool ignore_unrecognized)
\* on the object this; env is what the platform answers: whether the page
\* size is kPageSize, whether Heap::Init, sigprocmask and Thread::Startup succeed
RuntimeInit(this, raw_options, ignore_unrecognized, env) ==
  LET options == ParsedOptionsCreate(raw_options, ignore_unrecognized)
      parsed == [this EXCEPT !.vfprintf_ = TRUE, !.exit_ = TRUE, !.abort_ = TRUE,
                             !.stack_size_ = options.stack_size_,
                             !.thread_list_ = TRUE, !.intern_table_ = TRUE]
      with_vm == [parsed EXCEPT !.java_vm_ = TRUE]
  IN IF ~env.page_size THEN [abort |-> TRUE, ret |-> FALSE, obj |-> this]
     ELSE IF options.abort THEN [abort |-> TRUE, ret |-> FALSE, obj |-> this]
     ELSE IF options.null THEN [abort |-> FALSE, ret |-> FALSE, obj |-> this]
     ELSE IF ~env.heap THEN [abort |-> FALSE, ret |-> FALSE, obj |-> parsed]
     ELSE IF ~env.signals THEN [abort |-> TRUE, ret |-> FALSE, obj |-> parsed]
     ELSE IF ~env.threads THEN [abort |-> FALSE, ret |-> FALSE, obj |-> with_vm]
     ELSE [abort |-> FALSE, ret |-> TRUE,
           obj |-> [with_vm EXCEPT !.class_linker_ = TRUE]]

\* Runtime::~Runtime() and the release of the object at address this
RuntimeDtor(inst, objs, this) ==
  IF ~(inst = NULL \/ inst = this)             \* CHECK(instance_ == NULL || instance_ == this)
  THEN [abort |-> TRUE, instance_ |-> inst, runtimes |-> objs]
  ELSE [abort |-> FALSE, instance_ |-> NULL, runtimes |-> [objs EXCEPT ![this] = Freed]]

\* Create that keeps instance_ when Init fails
Create_KeepOnFailure(inst, objs, addr, options, ignore_unrecognized, env) ==
  IF inst # NULL
  THEN [abort |-> FALSE, ret |-> NULL, instance_ |-> inst, runtimes |-> objs]
  ELSE LET init == RuntimeInit(Runtime, options, ignore_unrecognized, env)
           made == [objs EXCEPT ![addr] = init.obj]
       IN IF init.abort
          THEN [abort |-> TRUE, ret |-> NULL, instance_ |-> addr, runtimes |-> made]
          ELSE [abort |-> FALSE, ret |-> addr, instance_ |-> addr, runtimes |-> made]

\* Runtime* Runtime::Create(const Options& options, bool ignore_unrecognized);
\* addr is the address new Runtime returns
Create(inst, objs, addr, options, ignore_unrecognized, env) ==
  IF inst # NULL
  THEN [abort |-> FALSE, ret |-> NULL, instance_ |-> inst, runtimes |-> objs]
  ELSE LET init == RuntimeInit(Runtime, options, ignore_unrecognized, env)
           made == [objs EXCEPT ![addr] = init.obj]
           deleted == RuntimeDtor(addr, made, addr)
       IN IF init.abort
          THEN [abort |-> TRUE, ret |-> NULL, instance_ |-> addr, runtimes |-> made]
          ELSE IF ~init.ret
          THEN [abort |-> deleted.abort, ret |-> NULL, instance_ |-> NULL,
                runtimes |-> deleted.runtimes]
          ELSE [abort |-> FALSE, ret |-> addr, instance_ |-> addr, runtimes |-> made]

\* void Runtime::Start() on the object at address this; InitLibraries and the
\* signal catcher act on the registered instance
Start(inst, objs, this) ==
  LET started == [objs EXCEPT ![this].started_ = TRUE]
  IN [started EXCEPT ![inst].signal_catcher_ = TRUE]

\* bool Runtime::IsStarted()
IsStarted(objs, this) == objs[this].started_

----------------------------------------------------------------------------
(* Headers and inputs the model draws from *)

\* OatQuickMethodHeader(uint32_t vmap_table_offset, uint32_t code_size); the
\* default constructor leaves both fields 0
Construct(vmap_table_offset, code_size) ==
  [vmap_table_offset_ |-> vmap_table_offset, code_size_ |-> code_size]

\* 0 (no blob) and 0x10
Offsets == {U32(0, 0), U32(0, 16)}

\* 0, 1, 0x100, 0x7FFFFFFF and the 0xFF-filled word that precedes a stub
CodeSizeWords ==
  {U32(0, 0), U32(0, 1), U32(0, 256), U32(32767, 65535), U32(65535, 65535)}

\* 0x1000 and an address near the top of the address space (0xFFFFF008, or
\* 0x00007FFFFFFFF008 on a 64-bit ISA) whose header, not the code, is 16-aligned
CodeAddrs(isa) ==
  {UPtr(isa, 0, 4096)} \cup
  {IF PtrLimbs(isa) = 2 THEN <<61448, 65535>> ELSE <<61448, 65535, 32767, 0>>}

\* The header immediately precedes its code bytes in one allocation: the
\* bytes from the (architecture-adjusted) code start to code start + size
\* are addresses, so that sum does not wrap.
Layout(isa, code, cs) ==
  LET code_start == IF isa = "kArm" THEN AddW(code, One(Len(code))) ELSE code
      size == ZeroExt(BitAnd(cs, kCodeSizeMask), Len(code))
  IN /\ LeW(code, code_start)
     /\ LeW(code_start, AddW(code_start, size))

\* what the stack-map decoder may answer for a frame
FrameInfos == {[frame_size_in_bytes |-> n] : n \in {64, 24}}

AdjustedStart == IF kRuntimeISA = "kArm" THEN AddW(code_, One(Len(code_))) ELSE code_
MaskedSize == ZeroExt(BitAnd(code_size_, kCodeSizeMask), Len(code_))

\* instruction pointers asked about: around both ends of the code, and the
\* fixed addresses 0x1100 and 0x1101
PcInputs ==
  { SubW(AdjustedStart, One(Len(code_))), AdjustedStart,
    AddW(AdjustedStart, MaskedSize),
    AddW(AddW(AdjustedStart, MaskedSize), One(Len(code_))),
    code_, UPtr(kRuntimeISA, 0, 4352), UPtr(kRuntimeISA, 0, 4353) }

\* code pointers handed to FromCodePointer: this header's, the next aligned
\* one, and misaligned ones
CodePtrInputs ==
  { code_, AddW(code_, One(Len(code_))), AddW(code_, ZeroExt(<<4>>, Len(code_))),
    AddW(code_, ZeroExt(<<8>>, Len(code_))) }

\* entry points handed to FromEntryPoint: those published for the code
\* pointers above, and the untagged code pointers themselves
EntryPointInputs ==
  { code_, AddW(code_, ZeroExt(<<4>>, Len(code_))) } \cup
  { GetEntryPoint(kRuntimeISA, p).ret : p \in CodePtrInputs }

\* a blob with two native offsets for guest offset 1, and with a normal and a
\* catch-handler mapping for native offset 8; and a blob of normal mappings only
CodeInfos ==
  { { StackMap(U32(0, 1), U32(0, 4), FALSE), StackMap(U32(0, 2), U32(0, 8), FALSE),
      StackMap(U32(0, 1), U32(0, 12), FALSE), StackMap(U32(0, 5), U32(0, 8), TRUE),
      StackMap(U32(0, 2), U32(0, 16), TRUE) },
    { StackMap(U32(0, 1), U32(0, 4), FALSE), StackMap(U32(0, 3), U32(0, 8), FALSE) } }

\* guest offsets asked about: those of the blobs, and 7, which none maps
DexPcInputs == {U32(0, 1), U32(0, 2), U32(0, 3), U32(0, 5), U32(0, 7)}

\* native pcs asked about: the entry point plus 4, 8, 12, 16 and 20, and
\* the untagged code start plus 4
NativePcInputs ==
  { AddW(GetEntryPoint(kRuntimeISA, code_).ret, ZeroExt(<<n>>, Len(code_))) :
      n \in {4, 8, 12, 16, 20} } \cup
  { AddW(code_, ZeroExt(<<4>>, Len(code_))) }

\* Options handed to Runtime::Create: none, a stack size, a malformed stack
\* size, an unrecognized option, a class path option without and with its
\* value, and -Xcheck:jni
OptionsInputs ==
  { <<>>, <<Option("-Xss", 65536)>>, <<Option("-Xss", 0)>>, <<Option("-foo", 0)>>,
    <<Option("-classpath", 0)>>, <<Option("-cp", 0), Option("a.jar", 0)>>,
    <<Option("-Xcheck:jni", 0)>> }

\* what the platform may answer during Runtime::Init
Envs == [page_size : BOOLEAN, heap : BOOLEAN, signals : BOOLEAN, threads : BOOLEAN]

----------------------------------------------------------------------------
(* The state machine of one header used from one thread *)

NoCall == [op |-> "none", arg |-> <<>>, abort |-> FALSE, ret |-> <<>>]

WriterIdle == [pc |-> "idle", tmp |-> <<>>]
ReaderIdle == [pc |-> "idle", op |-> "none", arg |-> <<>>,
               done |-> NoCall, sawFlag |-> FALSE, regressed |-> FALSE]

NumReaders == 2

\* a constructed header in its place before its code; no call made yet
InitHeader ==
  /\ kRuntimeISA \in ISAs
  /\ kIsDebugBuild \in BOOLEAN
  /\ code_ \in CodeAddrs(kRuntimeISA)
  /\ \E off \in Offsets, cs \in CodeSizeWords :
       /\ vmap_table_offset_ = Construct(off, cs).vmap_table_offset_
       /\ code_size_ = Construct(off, cs).code_size_
  /\ Layout(kRuntimeISA, code_, code_size_)
  /\ aborted = FALSE
  /\ last = NoCall
  /\ writer = WriterIdle
  /\ readers = [r \in 1..NumReaders |-> ReaderIdle]

\* Runtime* Runtime::instance_ = NULL, and no Runtime object exists
InitRuntimes ==
  /\ instance_ = NULL
  /\ runtimes = [a \in Addrs |-> Freed]

Init ==
  /\ InitHeader
  /\ code_info = {}
  /\ InitRuntimes

\* a call completes: it returns r.ret, or the process aborts
Call(op, arg, r) ==
  /\ ~aborted
  /\ last' = [op |-> op, arg |-> arg, abort |-> r.abort, ret |-> r.ret]
  /\ aborted' = r.abort
  /\ UNCHANGED <<build, code_info, instance_, runtimes, code_, writer, readers>>

DoGetCodeSize ==
  /\ Call("GetCodeSize", <<>>, GetCodeSize(code_size_))
  /\ UNCHANGED <<vmap_table_offset_, code_size_>>

DoIsOptimized ==
  /\ Call("IsOptimized", <<>>, IsOptimized(vmap_table_offset_, code_size_))
  /\ UNCHANGED <<vmap_table_offset_, code_size_>>

DoGetOptimizedCodeInfoPtr ==
  /\ Call("GetOptimizedCodeInfoPtr", <<>>,
          GetOptimizedCodeInfoPtr(kIsDebugBuild, code_, vmap_table_offset_, code_size_))
  /\ UNCHANGED <<vmap_table_offset_, code_size_>>

DoGetOptimizedCodeInfoPtrConst ==
  /\ Call("GetOptimizedCodeInfoPtrConst", <<>>,
          GetOptimizedCodeInfoPtrConst(kIsDebugBuild, code_, vmap_table_offset_, code_size_))
  /\ UNCHANGED <<vmap_table_offset_, code_size_>>

DoGetCode ==
  /\ Call("GetCode", <<>>, GetCode(code_))
  /\ UNCHANGED <<vmap_table_offset_, code_size_>>

DoGetVmapTableOffset ==
  /\ Call("GetVmapTableOffset", <<>>, GetVmapTableOffset(vmap_table_offset_))
  /\ UNCHANGED <<vmap_table_offset_, code_size_>>

DoSetVmapTableOffset ==
  \E offset \in Offsets :
    /\ Call("SetVmapTableOffset", offset, SetVmapTableOffset(offset))
    /\ vmap_table_offset_' = SetVmapTableOffset(offset).ret
    /\ UNCHANGED code_size_

DoGetVmapTable ==
  /\ Call("GetVmapTable", <<>>, GetVmapTable(code_, vmap_table_offset_, code_size_))
  /\ UNCHANGED <<vmap_table_offset_, code_size_>>

DoContains ==
  \E pc \in PcInputs :
    /\ Call("Contains", pc, Contains(kRuntimeISA, code_, code_size_, pc))
    /\ UNCHANGED <<vmap_table_offset_, code_size_>>

DoGetEntryPoint ==
  /\ Call("GetEntryPoint", <<>>, GetEntryPoint(kRuntimeISA, code_))
  /\ UNCHANGED <<vmap_table_offset_, code_size_>>

DoNativeQuickPcOffset ==
  \E pc \in {GetEntryPoint(kRuntimeISA, code_).ret, code_,
              UPtr(kRuntimeISA, 0, 4352), UPtr(kRuntimeISA, 0, 16)} :
    /\ Call("NativeQuickPcOffset", pc, NativeQuickPcOffset(kRuntimeISA, code_, pc))
    /\ UNCHANGED <<vmap_table_offset_, code_size_>>

DoGetFrameInfo ==
  \E decoded \in FrameInfos :
    /\ Call("GetFrameInfo", <<>>,
            GetFrameInfo(kIsDebugBuild, code_, vmap_table_offset_, code_size_, decoded))
    /\ UNCHANGED <<vmap_table_offset_, code_size_>>

DoGetFrameSizeInBytes ==
  \E decoded \in FrameInfos, kCheckFrameSize \in BOOLEAN :
    /\ Call("GetFrameSizeInBytes", <<kCheckFrameSize, decoded>>,
            GetFrameSizeInBytes(kCheckFrameSize, kIsDebugBuild, code_,
                                vmap_table_offset_, code_size_, decoded))
    /\ UNCHANGED <<vmap_table_offset_, code_size_>>

DoSetHasShouldDeoptimizeFlag ==
  LET r == SetHasShouldDeoptimizeFlag(kIsDebugBuild, code_size_)
  IN /\ Call("SetHasShouldDeoptimizeFlag", <<>>, r)
     /\ code_size_' = IF r.abort THEN code_size_ ELSE r.ret
     /\ UNCHANGED vmap_table_offset_

DoHasShouldDeoptimizeFlag ==
  /\ Call("HasShouldDeoptimizeFlag", <<>>, HasShouldDeoptimizeFlag(code_size_))
  /\ UNCHANGED <<vmap_table_offset_, code_size_>>

\* OatQuickMethodHeader(const OatQuickMethodHeader&) = default: a new header
\* with this one's fields; this one is only read
DoCopyConstruct ==
  /\ Call("CopyConstruct", <<>>, Ret(Construct(vmap_table_offset_, code_size_)))
  /\ UNCHANGED <<vmap_table_offset_, code_size_>>

\* the headers operator= may copy from: any constructed header, with its
\* deoptimize flag clear or set
OtherHeaders ==
  { Construct(off, cs) : off \in Offsets,
      cs \in {U32(0, 0), U32(0, 256), U32(32768, 1), U32(65535, 65535)} }

\* OatQuickMethodHeader& operator=(const OatQuickMethodHeader&) = default
DoAssign ==
  \E other \in OtherHeaders :
    /\ Layout(kRuntimeISA, code_, other.code_size_)
    /\ Call("operator=", other, Ret(other))
    /\ vmap_table_offset_' = other.vmap_table_offset_
    /\ code_size_' = other.code_size_

DoFromCodePointer ==
  \E code_ptr \in CodePtrInputs :
    /\ Call("FromCodePointer", code_ptr,
            FromCodePointer(kRuntimeISA, kIsDebugBuild, code_ptr))
    /\ UNCHANGED <<vmap_table_offset_, code_size_>>

DoFromEntryPoint ==
  \E entry_point \in EntryPointInputs :
    /\ Call("FromEntryPoint", entry_point,
            FromEntryPoint(kRuntimeISA, kIsDebugBuild, entry_point))
    /\ UNCHANGED <<vmap_table_offset_, code_size_>>

vars == <<kRuntimeISA, kIsDebugBuild, vmap_table_offset_, code_size_, code_,
          aborted, last, writer, readers, code_info, instance_, runtimes>>

Next ==
  \/ DoGetCodeSize
  \/ DoIsOptimized
  \/ DoGetOptimizedCodeInfoPtr
  \/ DoGetOptimizedCodeInfoPtrConst
  \/ DoGetCode
  \/ DoGetVmapTableOffset
  \/ DoSetVmapTableOffset
  \/ DoGetVmapTable
  \/ DoContains
  \/ DoGetEntryPoint
  \/ DoNativeQuickPcOffset
  \/ DoGetFrameInfo
  \/ DoGetFrameSizeInBytes
  \/ DoSetHasShouldDeoptimizeFlag
  \/ DoHasShouldDeoptimizeFlag
  \/ DoCopyConstruct
  \/ DoAssign
  \/ DoFromCodePointer
  \/ DoFromEntryPoint

Spec == Init /\ [][Next]_vars

----------------------------------------------------------------------------
(* One header shared by threads.  One thread calls                         *)
(* SetHasShouldDeoptimizeFlag() once; the others call the const accessors  *)
(* again and again.  No call takes a lock.  code_size_ and                 *)
(* vmap_table_offset_ are plain 4-byte aligned words (PACKED(4)): each     *)
(* load or store of one is a step of its own, and what a racing load       *)
(* returns is the word before or after the store.                          *)

\* the header is live with its flag clear when the threads start
InitMT == Init /\ ~(BitAnd(code_size_, kShouldDeoptimizeMask) # Zero32)

\* DCHECK_EQ(code_size_ & kShouldDeoptimizeMask, 0u): loads the word when
\* DCHECKs are compiled in
WriterCheck ==
  /\ ~aborted /\ writer.pc = "idle"
  /\ aborted' = SetHasShouldDeoptimizeFlag(kIsDebugBuild, code_size_).abort
  /\ writer' = [writer EXCEPT !.pc = "checked"]
  /\ UNCHANGED <<build, code_info, instance_, runtimes, hdr, last, readers>>

\* code_size_ |= kShouldDeoptimizeMask, the load
WriterLoad ==
  /\ ~aborted /\ writer.pc = "checked"
  /\ writer' = [pc |-> "loaded", tmp |-> code_size_]
  /\ UNCHANGED <<build, code_info, instance_, runtimes, hdr, last, readers, aborted>>

\* code_size_ |= kShouldDeoptimizeMask, the store
WriterStore ==
  /\ ~aborted /\ writer.pc = "loaded"
  /\ code_size_' = SetHasShouldDeoptimizeFlag(FALSE, writer.tmp).ret
  /\ writer' = [pc |-> "done", tmp |-> <<>>]
  /\ UNCHANGED <<build, code_info, instance_, runtimes, vmap_table_offset_, code_, last, readers, aborted>>

\* reader r's call completes
Return(r, op, arg, res) ==
  /\ readers' = [readers EXCEPT ![r] =
        [pc |-> "idle", op |-> "none", arg |-> <<>>,
         done |-> [op |-> op, arg |-> arg, abort |-> res.abort, ret |-> res.ret],
         sawFlag |-> @.sawFlag \/ (op = "HasShouldDeoptimizeFlag" /\ res.ret),
         regressed |-> @.regressed \/
                       (op = "HasShouldDeoptimizeFlag" /\ @.sawFlag /\ ~res.ret)]]
  /\ aborted' = res.abort

\* HasShouldDeoptimizeFlag(): one load
ReaderHasShouldDeoptimizeFlag(r) ==
  /\ ~aborted /\ readers[r].pc = "idle"
  /\ Return(r, "HasShouldDeoptimizeFlag", <<>>, HasShouldDeoptimizeFlag(code_size_))
  /\ UNCHANGED <<build, code_info, instance_, runtimes, hdr, last, writer>>

\* GetVmapTableOffset(): one load
ReaderGetVmapTableOffset(r) ==
  /\ ~aborted /\ readers[r].pc = "idle"
  /\ Return(r, "GetVmapTableOffset", <<>>, GetVmapTableOffset(vmap_table_offset_))
  /\ UNCHANGED <<build, code_info, instance_, runtimes, hdr, last, writer>>

\* GetCodeSize() up to its CHECK_NE, which loads code_size_
ReaderGetCodeSizeCheck(r) ==
  /\ ~aborted /\ readers[r].pc = "idle"
  /\ IF GetCodeSize(code_size_).abort
     THEN Return(r, "GetCodeSize", <<>>, Abort)
     ELSE /\ readers' = [readers EXCEPT ![r].pc = "mask", ![r].op = "GetCodeSize"]
          /\ UNCHANGED aborted
  /\ UNCHANGED <<build, code_info, instance_, runtimes, hdr, last, writer>>

\* Contains(pc) up to the CHECK_NE of the GetCodeSize() it calls; pc below
\* the code start answers false without loading code_size_
ReaderContainsCheck(r) ==
  \E pc \in {AdjustedStart, AddW(AdjustedStart, MaskedSize), code_} :
    /\ ~aborted /\ readers[r].pc = "idle"
    /\ IF ~LeW(AdjustedStart, pc)
       THEN Return(r, "Contains", pc, Contains(kRuntimeISA, code_, code_size_, pc))
       ELSE IF GetCodeSize(code_size_).abort
       THEN Return(r, "Contains", pc, Abort)
       ELSE /\ readers' = [readers EXCEPT ![r].pc = "mask", ![r].op = "Contains",
                                          ![r].arg = pc]
            /\ UNCHANGED aborted
    /\ UNCHANGED <<build, code_info, instance_, runtimes, hdr, last, writer>>

\* return code_size_ & kCodeSizeMask: the second load of code_size_, and
\* what the caller does with the value
ReaderMask(r) ==
  /\ ~aborted /\ readers[r].pc = "mask"
  /\ LET size == BitAnd(code_size_, kCodeSizeMask)
     IN IF readers[r].op = "GetCodeSize"
        THEN Return(r, "GetCodeSize", <<>>, Ret(size))
        ELSE Return(r, "Contains", readers[r].arg,
                    Contains(kRuntimeISA, code_, size, readers[r].arg))
  /\ UNCHANGED <<build, code_info, instance_, runtimes, hdr, last, writer>>

NextMT ==
  \/ WriterCheck
  \/ WriterLoad
  \/ WriterStore
  \/ \E r \in 1..NumReaders :
       \/ ReaderHasShouldDeoptimizeFlag(r)
       \/ ReaderGetVmapTableOffset(r)
       \/ ReaderGetCodeSizeCheck(r)
       \/ ReaderContainsCheck(r)
       \/ ReaderMask(r)

SpecMT == InitMT /\ [][NextMT]_vars

----------------------------------------------------------------------------
(* Translation of pcs through one header and the blob before it *)

\* the native offsets of the blob lie in the code the header measures
InitPc ==
  /\ InitHeader
  /\ code_info \in CodeInfos
  /\ IF GetCodeSize(code_size_).abort THEN TRUE
     ELSE IF GetCodeSize(code_size_).ret = Zero32 THEN TRUE
     ELSE \A m \in code_info : LtW(m.native_offset, GetCodeSize(code_size_).ret)
  /\ InitRuntimes

DoToNativeQuickPc ==
  \E dex_pc \in DexPcInputs, is_for_catch_handler \in BOOLEAN,
     abort_on_failure \in BOOLEAN :
    /\ Call("ToNativeQuickPc",
            [dex_pc |-> dex_pc, is_for_catch_handler |-> is_for_catch_handler,
             abort_on_failure |-> abort_on_failure],
            ToNativeQuickPc(kRuntimeISA, kIsDebugBuild, code_, vmap_table_offset_,
                            code_size_, code_info, dex_pc, is_for_catch_handler,
                            abort_on_failure))
    /\ UNCHANGED <<vmap_table_offset_, code_size_>>

DoToDexPc ==
  \E pc \in NativePcInputs, abort_on_failure \in BOOLEAN :
    /\ Call("ToDexPc", [pc |-> pc, abort_on_failure |-> abort_on_failure],
            ToDexPc(kRuntimeISA, kIsDebugBuild, code_, vmap_table_offset_,
                    code_size_, code_info, pc, abort_on_failure))
    /\ UNCHANGED <<vmap_table_offset_, code_size_>>

NextPc ==
  \/ DoToNativeQuickPc
  \/ DoToDexPc
  \/ DoSetHasShouldDeoptimizeFlag

SpecPc == InitPc /\ [][NextPc]_vars

----------------------------------------------------------------------------
(* The Runtime singleton used from one thread *)

\* no header is looked at: a default-constructed one stands in its place
InitRuntime ==
  /\ Init
  /\ kRuntimeISA = "kArm"
  /\ code_ = UPtr("kArm", 0, 4096)
  /\ vmap_table_offset_ = Zero32 /\ code_size_ = Zero32

\* a call on the Runtime completes
CallRuntime(op, arg, abort, ret) ==
  /\ ~aborted
  /\ last' = [op |-> op, arg |-> arg, abort |-> abort, ret |-> ret]
  /\ aborted' = abort
  /\ UNCHANGED <<build, hdr, code_info, writer, readers>>

\* Runtime::Create(options, ignore_unrecognized); new Runtime returns an
\* address that holds no object
DoCreate ==
  \E addr \in Addrs, options \in OptionsInputs, ignore_unrecognized \in BOOLEAN,
     env \in Envs :
    LET r == Create(instance_, runtimes, addr, options, ignore_unrecognized, env)
    IN /\ instance_ = NULL => ~runtimes[addr].allocated
       /\ CallRuntime("Create",
                      [options |-> options, ignore_unrecognized |-> ignore_unrecognized,
                       env |-> env],
                      r.abort, r.ret)
       /\ instance_' = r.instance_
       /\ runtimes' = r.runtimes

\* delete runtime, for a Runtime that exists
DoDelete ==
  \E this \in Addrs :
    LET r == RuntimeDtor(instance_, runtimes, this)
    IN /\ runtimes[this].allocated
       /\ CallRuntime("~Runtime", this, r.abort, NULL)
       /\ instance_' = r.instance_
       /\ runtimes' = r.runtimes

\* runtime->Start(), for a Runtime that exists
DoStart ==
  \E this \in Addrs :
    /\ runtimes[this].allocated /\ instance_ # NULL
    /\ CallRuntime("Start", this, FALSE, NULL)
    /\ runtimes' = Start(instance_, runtimes, this)
    /\ UNCHANGED instance_

\* runtime->IsStarted(), for a Runtime that exists
DoIsStarted ==
  \E this \in Addrs :
    /\ runtimes[this].allocated
    /\ CallRuntime("IsStarted", this, FALSE, IsStarted(runtimes, this))
    /\ UNCHANGED <<instance_, runtimes>>

NextRuntime ==
  \/ DoCreate
  \/ DoDelete
  \/ DoStart
  \/ DoIsStarted

SpecRuntime == InitRuntime /\ [][NextRuntime]_vars

----------------------------------------------------------------------------
(* Properties *)

\* the step is a call of the named operation (every call records its name)
Called(op) == last'.op = op

Flag(cs) == BitAnd(cs, kShouldDeoptimizeMask) # Zero32
SizeBits(cs) == BitAnd(cs, kCodeSizeMask)

\* the header has a code size: GetCodeSize() returns it
HasCodeSize == ~GetCodeSize(code_size_).abort

\* C1: whenever the code-size field with bit 31 masked off is all ones
\* (0x7FFFFFFF), with bit 31 of the stored word set or clear, a call of
\* GetCodeSize() aborts and returns nothing.
C1_SentinelDetection ==
  (last.op = "GetCodeSize" /\ SizeBits(code_size_) = kCodeSizeMask) => last.abort

\* C2: if GetCodeSize() returns v while the flag is clear, then after a
\* SetHasShouldDeoptimizeFlag() it returns the same v, without aborting.
C2_FlagIndependence ==
  [][(Called("SetHasShouldDeoptimizeFlag") /\ ~last'.abort /\ ~Flag(code_size_) /\ HasCodeSize)
       => GetCodeSize(code_size_') = GetCodeSize(code_size_)]_vars

\* pc lies in [C, C + S], stated without the sum: C <= pc and pc - C <= S
InCodeRange(pc) == LeW(AdjustedStart, pc) /\ LeW(SubW(pc, AdjustedStart), MaskedSize)

\* C3: for a header with code size S and adjusted code start C (code start + 1
\* on ARM), Contains(pc) returns true exactly when C <= pc <= C + S: true at C
\* and at C + S, false at C - 1 and at C + S + 1, with the flag set or clear.
C3_ContainsBounds ==
  (last.op = "Contains" /\ HasCodeSize) =>
    /\ ~last.abort
    /\ last.ret = InCodeRange(last.arg)
    /\ last.arg = AdjustedStart => last.ret
    /\ last.arg = AddW(AdjustedStart, MaskedSize) => last.ret
    /\ last.arg = SubW(AdjustedStart, One(Len(code_))) => ~last.ret
    /\ last.arg = AddW(AddW(AdjustedStart, MaskedSize), One(Len(code_))) => ~last.ret

\* C3 witness: on ARM, with the flag set and a nonzero size, Contains(C + S)
\* has returned true
C3_Witness ==
  /\ last.op = "Contains" /\ ~last.abort
  /\ kRuntimeISA = "kArm" /\ Flag(code_size_) /\ SizeBits(code_size_) = U32(0, 256)
  /\ last.arg = AddW(AdjustedStart, MaskedSize)
  /\ last.ret

\* FromCodePointer accepts code_ptr: its alignment assertion holds
Accepted(code_ptr) == ~FromCodePointer(kRuntimeISA, TRUE, code_ptr).abort

\* C4: for an accepted code pointer p, FromEntryPoint applied to the entry
\* point of the header FromCodePointer(p) returns that same header address,
\* on every ISA: the bit GetEntryPoint adds is the bit FromEntryPoint strips.
C4_EntryPointSymmetry ==
  \A p \in CodePtrInputs :
    LET header == FromCodePointer(kRuntimeISA, kIsDebugBuild, p).ret
    IN (/\ Accepted(p)
        /\ last.op = "FromEntryPoint"
        /\ last.arg = GetEntryPoint(kRuntimeISA, CodeOf(header)).ret)
       => (~last.abort /\ last.ret = header /\ CodeOf(last.ret) = p)

\* C4 witness: on ARM, FromEntryPoint was given the tagged entry point of this
\* header and returned its address
C4_Witness ==
  /\ last.op = "FromEntryPoint" /\ ~last.abort
  /\ kRuntimeISA = "kArm"
  /\ last.arg = AddW(code_, One(Len(code_)))
  /\ CodeOf(last.ret) = code_

GatedOps == {"GetFrameInfo", "GetFrameSizeInBytes", "GetOptimizedCodeInfoPtr",
             "GetOptimizedCodeInfoPtrConst"}

\* C5 as stated: IsOptimized() is code size # 0 and info offset # 0; with a
\* zero info offset the gated operations abort; with a nonzero info offset
\* and a nonzero code size they succeed.
C5_OptimizedGating_AsStated ==
  /\ (last.op = "IsOptimized" /\ ~last.abort) =>
       last.ret = (SizeBits(code_size_) # Zero32 /\ vmap_table_offset_ # Zero32)
  /\ (last.op \in GatedOps /\ vmap_table_offset_ = Zero32) => last.abort
  /\ (last.op \in GatedOps /\ vmap_table_offset_ # Zero32 /\ HasCodeSize
        /\ SizeBits(code_size_) # Zero32) => ~last.abort

\* C5 amended: IsOptimized() aborts exactly on the stored word 0xFFFFFFFF and
\* otherwise is code size # 0 and info offset # 0.  With a zero info offset
\* the gated operations abort exactly when DCHECKs are compiled in.  With a
\* nonzero info offset and a nonzero code size GetFrameInfo() and both
\* GetOptimizedCodeInfoPtr() succeed, and GetFrameSizeInBytes() aborts only
\* when DCHECKs are compiled in, the frame size is checked and the decoded
\* frame size is not a multiple of the stack alignment.
C5_OptimizedGating ==
  /\ last.op = "IsOptimized" =>
       /\ last.abort = (code_size_ = kStubPrefix)
       /\ ~last.abort =>
            last.ret = (SizeBits(code_size_) # Zero32 /\ vmap_table_offset_ # Zero32)
  /\ (last.op \in GatedOps /\ vmap_table_offset_ = Zero32) =>
       last.abort = kIsDebugBuild
  /\ (last.op \in GatedOps /\ vmap_table_offset_ # Zero32 /\ HasCodeSize
        /\ SizeBits(code_size_) # Zero32) =>
       IF last.op = "GetFrameSizeInBytes"
       THEN last.abort = (/\ kIsDebugBuild
                          /\ last.arg[1]
                          /\ last.arg[2].frame_size_in_bytes % kStackAlignment # 0)
       ELSE ~last.abort

\* C5 witness: GetFrameInfo() on a header with a zero info offset has aborted
C5_Witness ==
  last.op = "GetFrameInfo" /\ vmap_table_offset_ = Zero32 /\ last.abort

C7_Immutability_AsStated ==
  [][/\ vmap_table_offset_' = vmap_table_offset_
     /\ SizeBits(code_size_') = SizeBits(code_size_)
     /\ Flag(code_size_) => Flag(code_size_')]_vars

\* C7 amended: the info offset is changed only by SetVmapTableOffset() and by
\* copy assignment; the code-size bits are changed, and the flag cleared,
\* only by copy assignment; the flag is set only by
\* SetHasShouldDeoptimizeFlag() and by copy assignment.
C7_Immutability ==
  [][/\ vmap_table_offset_' # vmap_table_offset_ => (Called("SetVmapTableOffset") \/ Called("operator="))
     /\ SizeBits(code_size_') # SizeBits(code_size_) => Called("operator=")
     /\ (Flag(code_size_) /\ ~Flag(code_size_')) => Called("operator=")
     /\ (~Flag(code_size_) /\ Flag(code_size_')) =>
          (Called("SetHasShouldDeoptimizeFlag") \/ Called("operator="))]_vars

\* C7 witness: SetHasShouldDeoptimizeFlag() has set the flag of a header
\* whose info offset is 0x10 and whose code size is 0x100
C7_Witness ==
  /\ last.op = "SetHasShouldDeoptimizeFlag" /\ ~last.abort
  /\ code_size_ = U32(32768, 256) /\ vmap_table_offset_ = U32(0, 16)

\* the code start with its low bit set on ARM, the code start otherwise
TaggedEntry ==
  IF kRuntimeISA = "kArm"
  THEN [code_ EXCEPT ![1] = IF @ % 2 = 0 THEN @ + 1 ELSE @]
  ELSE code_

\* C9: NativeQuickPcOffset(pc) is pc minus the entry point, the entry point
\* being the code start OR 1 on ARM and the code start otherwise; it is 0 at
\* the entry point, and code at 0x1000 has the ARM entry point 0x1001.
C9_NativeOffset ==
  /\ last.op = "NativeQuickPcOffset" =>
       /\ ~last.abort
       /\ AddW(last.ret, TaggedEntry) = last.arg
       /\ last.arg = TaggedEntry => last.ret = ZeroExt(<<>>, Len(code_))
  /\ last.op = "GetEntryPoint" =>
       /\ ~last.abort /\ last.ret = TaggedEntry
       /\ (kRuntimeISA = "kArm" /\ code_ = UPtr(kRuntimeISA, 0, 4096)) =>
            last.ret = UPtr(kRuntimeISA, 0, 4097)

\* C9 witness: on ARM, NativeQuickPcOffset of the entry point 0x1001 of code
\* at 0x1000 has returned 0
C9_Witness ==
  /\ last.op = "NativeQuickPcOffset" /\ kRuntimeISA = "kArm"
  /\ code_ = <<4096, 0>> /\ last.arg = <<4097, 0>> /\ last.ret = <<0, 0>>

\* what C10 says of a completed GetOptimizedCodeInfoPtr() call
C10_Result ==
  (vmap_table_offset_ # Zero32 /\ HasCodeSize /\ SizeBits(code_size_) # Zero32) =>
    /\ ~last.abort
    /\ AddW(last.ret, ZeroExt(vmap_table_offset_, Len(code_))) = code_
    /\ LeW(ZeroExt(vmap_table_offset_, Len(code_)), code_) => LeW(last.ret, code_)
    /\ (/\ code_ = UPtr(kRuntimeISA, 0, 4096)
        /\ vmap_table_offset_ = U32(0, 16)
        /\ SizeBits(code_size_) = U32(0, 256)) => last.ret = UPtr(kRuntimeISA, 0, 4080)

\* C10: on an optimized header both GetOptimizedCodeInfoPtr() accessors
\* return code start minus info offset and leave the header as it was; for
\* code size 0x100, info offset 0x10 and code start 0x1000 that is 0x0FF0.
C10_BlobAddress ==
  [][(Called("GetOptimizedCodeInfoPtr") \/ Called("GetOptimizedCodeInfoPtrConst")) =>
       (UNCHANGED hdr /\ C10_Result')]_vars

\* C10 witness: the non-const accessor has returned 0x0FF0 for code size
\* 0x100, info offset 0x10 and code start 0x1000
C10_Witness ==
  /\ last.op = "GetOptimizedCodeInfoPtr" /\ ~last.abort
  /\ code_ = UPtr(kRuntimeISA, 0, 4096) /\ vmap_table_offset_ = U32(0, 16)
  /\ code_size_ = U32(0, 256) /\ last.ret = UPtr(kRuntimeISA, 0, 4080)

\* what C8 says of reader r: its calls do not abort, its
\* HasShouldDeoptimizeFlag() results never go from true to false, and
\* GetCodeSize(), GetVmapTableOffset() and Contains(pc) answer what they
\* answer on the header with its flag clear
ReaderUnaffected(r) ==
  LET done == readers[r].done
      before == SizeBits(code_size_)
  IN /\ ~done.abort
     /\ ~readers[r].regressed
     /\ done.op = "GetCodeSize" => done.ret = GetCodeSize(before).ret
     /\ done.op = "GetVmapTableOffset" => done.ret = vmap_table_offset_
     /\ done.op = "Contains" =>
          done.ret = Contains(kRuntimeISA, code_, before, done.arg).ret

\* C8: while one thread performs a single SetHasShouldDeoptimizeFlag(), no
\* concurrent reader aborts, each reader sees the flag go only from false to
\* true, and GetCodeSize(), the info offset and Contains(pc) return what
\* they returned before the write.
C8_LockFreeReads == \A r \in 1..NumReaders : ReaderUnaffected(r)

\* C8 holds of every header whose code-size bits are not all ones
C8_ExceptAllOnes ==
  SizeBits(code_size_) # kCodeSizeMask => \A r \in 1..NumReaders : ReaderUnaffected(r)

----------------------------------------------------------------------------
(* PC translation round trip *)

\* the header is optimized: IsOptimized() returns true
OptimizedHeader ==
  /\ ~IsOptimized(vmap_table_offset_, code_size_).abort
  /\ IsOptimized(vmap_table_offset_, code_size_).ret

\* the guest offsets the blob maps, in its normal or its catch-handler mappings
PresentDexPcs(catch) == { m.guest_offset : m \in { k \in code_info : k.catch = catch } }

\* ToNativeQuickPc(method, x, catch) on this header, aborting on failure
NativePcOf(x, catch) ==
  ToNativeQuickPc(kRuntimeISA, kIsDebugBuild, code_, vmap_table_offset_, code_size_,
                  code_info, x, catch, TRUE)

\* ToDexPc just returned x for the pc that ToNativeQuickPc(x, catch) gives
RoundTrip(x, catch) ==
  /\ ~NativePcOf(x, catch).abort
  /\ last.arg.pc = NativePcOf(x, catch).ret => ~last.abort /\ last.ret = x

----------------------------------------------------------------------------
(* The Runtime singleton *)

\* every Runtime object that exists is the one registered in instance_, and
\* instance_ points at an object that exists
AtMostOneRuntime ==
  /\ \A a \in Addrs : runtimes[a].allocated => instance_ = a
  /\ instance_ # NULL => runtimes[instance_].allocated

\* the Init of the Create call just made returned false
InitFailed ==
  LET init == RuntimeInit(Runtime, last'.arg.options, last'.arg.ignore_unrecognized,
                          last'.arg.env)
  IN ~init.abort /\ ~init.ret

\* in the state after the step, a Create with no options succeeds when the
\* platform does
CreateCanSucceed ==
  \E addr \in Addrs :
    /\ ~runtimes'[addr].allocated
    /\ LET r == Create(instance_', runtimes', addr, <<>>, FALSE,
                       [page_size |-> TRUE, heap |-> TRUE, signals |-> TRUE,
                        threads |-> TRUE])
       IN ~r.abort /\ r.ret = addr /\ r.instance_ = addr

\* the state written out: it changes exactly when the state does, and two
\* of its values can always be compared, whatever the calls returned
varsText == ToString(vars)

\* what a step of Create or of a destruction does to instance_
SingletonStep ==
  /\ (Called("Create") /\ instance_ # NULL) =>
       /\ ~last'.abort /\ last'.ret = NULL
       /\ instance_' = instance_ /\ runtimes' = runtimes
  /\ (Called("Create") /\ instance_ = NULL /\ InitFailed) =>
       /\ ~last'.abort /\ last'.ret = NULL
       /\ instance_' = NULL
       /\ CreateCanSucceed
  /\ (Called("~Runtime") /\ last'.arg = instance_) =>
       ~last'.abort /\ instance_' = NULL

\* C12: in every state reached by Create calls and destructions on one
\* thread, at most one Runtime exists and it is the one registered in
\* instance_; a Create while an instance is registered returns NULL and
\* changes nothing; a Create whose Init returns false returns NULL and leaves
\* instance_ NULL with a later Create able to succeed; destroying the
\* registered Runtime resets instance_ to NULL.
C12_Singleton == []AtMostOneRuntime /\ [][SingletonStep]_varsText

\* a Create failed in Init at Thread::Startup: it returned NULL, no Runtime
\* is registered and none exists
C12_Witness ==
  /\ last.op = "Create" /\ ~last.abort /\ last.ret = NULL
  /\ last.arg.env = [page_size |-> TRUE, heap |-> TRUE, signals |-> TRUE,
                     threads |-> FALSE]
  /\ instance_ = NULL
  /\ \A a \in Addrs : ~runtimes[a].allocated

====
